---- MODULE Spec2Model ----
(***************************************************************************)
(* A model of NodeExporterMonitor (src/main.py): the Prometheus line       *)
(* parser parse_metric_line, the rule evaluator evaluate_metric_rule, the  *)
(* scan cycle check_metrics (with fetch_metrics and send_email) and the    *)
(* monitoring loop start.                                                  *)
(*                                                                         *)
(* A Python str is a sequence of one-character strings.  A value that a    *)
(* Python function returns or raises is a record with a field kind:        *)
(* "sample" / "alert" for a returned value, "None" for None and "raise"    *)
(* for an exception leaving the function.                                  *)
(***************************************************************************)
EXTENDS Integers, Sequences, FiniteSets, TLC

VARIABLES
    line,        \* parse_metric_line: the argument
    parsed,      \* parse_metric_line: what the call produced
    sample,      \* evaluate_metric_rule: the arguments (name, value, labels)
    rule,        \* evaluate_metric_rule: the rule argument
    result,      \* evaluate_metric_rule: what the call produced
    config,      \* self.config: rules and check_interval
    pc,          \* start / check_metrics: the position of the main thread
    metrics,     \* check_metrics: the list fetch_metrics returned
    idx,         \* check_metrics: the next element of the for loop
    alerts,      \* check_metrics: the alert list of the cycle
    fetched,     \* fetch_metrics: "none", "ok" or "failed" in this cycle
    sends,       \* send_email: the calls of this cycle and their outcome
    log,         \* logging: the last record written
    slept,       \* time.sleep: the argument of the last sleep
    interrupted  \* whether a KeyboardInterrupt has been raised in the thread

vars == <<line, parsed, sample, rule, result, config, pc, metrics, idx,
          alerts, fetched, sends, log, slept, interrupted>>

parseVars == <<line, parsed>>
evalVars == <<sample, rule, result>>
loopVars == <<config, pc, metrics, idx, alerts, fetched, sends, log, slept,
              interrupted>>

(***************************************************************************)
(* Bounds of the model.                                                    *)
(***************************************************************************)
MaxLen == 4          \* longest line enumerated character by character
MaxLabels == 2       \* most labels of an enumerated well-formed line

(***************************************************************************)
(* Python values.                                                          *)
(***************************************************************************)
None == [kind |-> "None"]
Raise(exc) == [kind |-> "raise", exc |-> exc]
Unset == [kind |-> "unset"]
NoLog == [level |-> "none", msg |-> ""]
EmptyDict == [k \in {} |-> <<>>]
DictSet(d, k, v) == [x \in (DOMAIN d) \cup {k} |-> IF x = k THEN v ELSE d[x]]

(***************************************************************************)
(* str methods.                                                            *)
(***************************************************************************)
\* The characters str.strip() and float() treat as whitespace.
Whitespace == {" ", "\t"}
\* The characters the regular expression class \w matches.
Digits == {"0", "1", "2", "3", "4", "5", "6", "7", "8", "9"}
WordChars == {"a", "b", "_"} \cup Digits

Contains(s, c) == \E i \in 1..Len(s) : s[i] = c
\* str.index: the first position of c (the caller checks that there is one).
index(s, c) == CHOOSE i \in 1..Len(s) :
                   s[i] = c /\ \A j \in 1..(i - 1) : s[j] # c
\* str.rindex: the last position of c.
rindex(s, c) == CHOOSE i \in 1..Len(s) :
                    s[i] = c /\ \A j \in (i + 1)..Len(s) : s[j] # c
startswith(s, c) == Len(s) > 0 /\ s[1] = c

RECURSIVE lstrip(_)
lstrip(s) == IF Len(s) > 0 /\ s[1] \in Whitespace THEN lstrip(Tail(s)) ELSE s
RECURSIVE rstrip(_)
rstrip(s) == IF Len(s) > 0 /\ s[Len(s)] \in Whitespace
             THEN rstrip(SubSeq(s, 1, Len(s) - 1)) ELSE s
strip(s) == rstrip(lstrip(s))

\* str.split(sep): every occurrence of sep separates two tokens, so n
\* occurrences give n + 1 tokens, empty ones included.
RECURSIVE split(_, _)
split(s, sep) ==
    IF ~Contains(s, sep) THEN <<s>>
    ELSE LET i == index(s, sep)
         IN <<SubSeq(s, 1, i - 1)>> \o split(SubSeq(s, i + 1, Len(s)), sep)

(***************************************************************************)
(* float(value_str) on the characters of the model: optional surrounding   *)
(* whitespace, an optional sign, then decimal digits.                      *)
(***************************************************************************)
DigitVal(c) == CHOOSE n \in 0..9 : <<"0", "1", "2", "3", "4", "5", "6", "7", "8", "9">>[n + 1] = c
RECURSIVE DecVal(_)
DecVal(ds) == IF ds = <<>> THEN 0
              ELSE 10 * DecVal(SubSeq(ds, 1, Len(ds) - 1)) + DigitVal(ds[Len(ds)])
Unsigned(t) == IF Len(t) > 0 /\ t[1] \in {"-", "+"} THEN Tail(t) ELSE t
IsFloat(t) == LET u == Unsigned(strip(t))
              IN Len(u) > 0 /\ \A i \in 1..Len(u) : u[i] \in Digits
FloatOf(t) == LET u == strip(t)
              IN IF startswith(u, "-") THEN 0 - DecVal(Unsigned(u))
                 ELSE DecVal(Unsigned(u))

(***************************************************************************)
(* re.findall with the pattern of line 48 (a group of word characters, an  *)
(* equals sign, and a group of non-quote characters between two double     *)
(* quotes): the non-overlapping matches from left to right.  At a position *)
(* the match is the maximal run of word characters, then the equals sign   *)
(* and the opening quote, then the characters up to the next quote.        *)
(***************************************************************************)
RECURSIVE WordRun(_, _)
WordRun(s, p) == IF p <= Len(s) /\ s[p] \in WordChars THEN 1 + WordRun(s, p + 1) ELSE 0
RECURSIVE NextQuote(_, _)
NextQuote(s, p) == IF p > Len(s) THEN 0
                   ELSE IF s[p] = "\"" THEN p ELSE NextQuote(s, p + 1)
RECURSIVE findall(_, _)
findall(s, p) ==
    IF p > Len(s) THEN <<>>
    ELSE LET n == WordRun(s, p)
             q == p + n
             opens == n > 0 /\ q + 1 <= Len(s) /\ s[q] = "=" /\ s[q + 1] = "\""
             close == IF opens THEN NextQuote(s, q + 2) ELSE 0
         IN IF close > 0
            THEN <<<<SubSeq(s, p, q - 1), SubSeq(s, q + 2, close - 1)>>>>
                     \o findall(s, close + 1)
            ELSE findall(s, p + 1)

\* for label_pair in ...: labels[label_pair[0]] = label_pair[1]
RECURSIVE LabelsOf(_, _)
LabelsOf(pairs, labels) ==
    IF pairs = <<>> THEN labels
    ELSE LabelsOf(Tail(pairs), DictSet(labels, pairs[1][1], pairs[1][2]))

(***************************************************************************)
(* parse_metric_line.                                                      *)
(***************************************************************************)
\* Lines 39-53, the body of the try statement.
ParseBody(ln) ==
    LET parts == split(ln, " ")
    IN IF Len(parts) # 2 THEN Raise("ValueError")
       ELSE LET name_part == parts[1]
                value_str == parts[2]
            IN IF Contains(name_part, "{")
               THEN IF ~Contains(name_part, "}") THEN Raise("ValueError")
                    ELSE LET open == index(name_part, "{")
                             labels_str == SubSeq(name_part, open + 1,
                                                  rindex(name_part, "}") - 1)
                         IN IF ~IsFloat(value_str) THEN Raise("ValueError")
                            ELSE [kind |-> "sample",
                                  name |-> SubSeq(name_part, 1, open - 1),
                                  value |-> FloatOf(value_str),
                                  labels |-> LabelsOf(findall(labels_str, 1), EmptyDict)]
               ELSE IF ~IsFloat(value_str) THEN Raise("ValueError")
                    ELSE [kind |-> "sample", name |-> name_part,
                          value |-> FloatOf(value_str), labels |-> EmptyDict]

\* A variant of ParseTry without the except clause.
ParseTry_NoExcept(ln) == ParseBody(ln)

\* Lines 38 and 54-55: except Exception: return None.
ParseTry(ln) == LET r == ParseBody(ln) IN IF r.kind = "raise" THEN None ELSE r

\* Line 34: the comment and blank-line test.
IsCommentOrBlank(ln) == startswith(ln, "#") \/ strip(ln) = <<>>

parse_metric_line(ln) == IF IsCommentOrBlank(ln) THEN None ELSE ParseTry(ln)

(***************************************************************************)
(* The lines the parser is applied to: every string of at most MaxLen      *)
(* characters, every well-formed labelled line of at most MaxLabels        *)
(* labels, and every such line with one character deleted.                 *)
(***************************************************************************)
ShortChars == {"a", "1", "-", " ", "\t", "#", "{", "}", "\""}
ShortLines == UNION {[1..n -> ShortChars] : n \in 0..MaxLen}

MetricNames == {<<"a">>, <<"b", "1">>}
LabelNames == {<<"a">>, <<"b">>}
LabelValues == {<<>>, <<"a">>, <<"a", " ", "b">>, <<"{">>, <<"}">>, <<",">>}
ValueTokens == {<<"1">>, <<"-", "1", "0">>}
LabelLists == UNION {[1..n -> LabelNames \X LabelValues] : n \in 0..MaxLabels}

RECURSIVE RenderLabels(_)
RenderLabels(labs) ==
    IF labs = <<>> THEN <<>>
    ELSE labs[1][1] \o <<"=", "\"">> \o labs[1][2] \o <<"\"">>
         \o (IF Len(labs) > 1 THEN <<",">> ELSE <<>>) \o RenderLabels(Tail(labs))
WellFormedLine(name, labs, tok) ==
    name \o <<"{">> \o RenderLabels(labs) \o <<"}", " ">> \o tok
WellFormedLines ==
    {WellFormedLine(n, l, t) : <<n, l, t>> \in MetricNames \X LabelLists \X ValueTokens}
Delete(s, i) == SubSeq(s, 1, i - 1) \o SubSeq(s, i + 1, Len(s))
DamagedLines ==
    UNION {{Delete(WellFormedLine(<<"a">>, l, <<"1">>), i) :
               i \in 1..Len(WellFormedLine(<<"a">>, l, <<"1">>))} : l \in LabelLists}
Lines == ShortLines \cup WellFormedLines \cup DamagedLines

(***************************************************************************)
(* The parser applied to one line.                                         *)
(***************************************************************************)
EvalIdle == sample = Unset /\ rule = Unset /\ result = Unset
LoopIdle ==
    /\ config = Unset /\ pc = "idle" /\ metrics = <<>> /\ idx = 0
    /\ alerts = <<>> /\ fetched = "none" /\ sends = <<>>
    /\ log = NoLog /\ slept = 0 /\ interrupted = FALSE

InitParse == line \in Lines /\ parsed = Unset /\ EvalIdle /\ LoopIdle

ParseLine ==
    /\ parsed = Unset
    /\ parsed' = parse_metric_line(line)
    /\ UNCHANGED <<line, evalVars, loopVars>>

NextParse == ParseLine
SpecParse == InitParse /\ [][NextParse]_vars

(***************************************************************************)
(* evaluate_metric_rule.                                                   *)
(*                                                                         *)
(* A rule is a mapping loaded from YAML: a function on a subset of the     *)
(* keys gt, lt, eq and label_match.  A threshold is a YAML scalar, a       *)
(* number or a string; label_match is a mapping kept in the order of the   *)
(* file, a sequence of (label, pattern) pairs with distinct labels.        *)
(***************************************************************************)
Num(n) == [type |-> "number", val |-> n]
Str(s) == [type |-> "str", val |-> s]
Has(r, key) == key \in DOMAIN r

\* bool(rule.get(key)) for a threshold: None, 0 and the empty string are
\* false.
TruthyScalar(r, key) ==
    Has(r, key) /\ (IF r[key].type = "number" THEN r[key].val # 0 ELSE r[key].val # <<>>)
\* bool(rule.get('label_match')): None and the empty mapping are false.
TruthyMapping(r, key) == Has(r, key) /\ r[key] # <<>>

\* re.match(pattern, string) for patterns of literal characters, the dot and
\* the opening parenthesis: a parenthesis is never closed, so the pattern
\* does not compile (re.error); otherwise the pattern has to match a prefix
\* of the string.
Compiles(pattern) == ~Contains(pattern, "(")
PrefixMatch(pattern, string) ==
    /\ Len(pattern) <= Len(string)
    /\ \A i \in 1..Len(pattern) : pattern[i] = "." \/ pattern[i] = string[i]
re_match(pattern, string) ==
    IF ~Compiles(pattern) THEN Raise("re.error")
    ELSE IF PrefixMatch(pattern, string) THEN [kind |-> "match"] ELSE None

\* A variant of LabelEntry that skips a label the sample does not have.
LabelEntry_SkipAbsent(labels, label, pattern) ==
    IF label \notin DOMAIN labels THEN [kind |-> "next"]
    ELSE LET m == re_match(pattern, labels[label])
         IN IF m.kind = "raise" THEN m
            ELSE IF m.kind = "None" THEN None ELSE [kind |-> "next"]

\* Lines 96-98, one entry of label_match: "next" when the loop goes on.
LabelEntry(labels, label, pattern) ==
    IF label \notin DOMAIN labels THEN None
    ELSE LET m == re_match(pattern, labels[label])
         IN IF m.kind = "raise" THEN m
            ELSE IF m.kind = "None" THEN None ELSE [kind |-> "next"]

\* Lines 96-98, the for loop over the entries.
RECURSIVE LabelLoop(_, _)
LabelLoop(labels, entries) ==
    IF entries = <<>> THEN [kind |-> "next"]
    ELSE LET r == LabelEntry(labels, entries[1][1], entries[1][2])
         IN IF r.kind = "next" THEN LabelLoop(labels, Tail(entries)) ELSE r

\* Lines 95-98.
LabelCheck(labels, r) ==
    IF TruthyMapping(r, "label_match") THEN LabelLoop(labels, r["label_match"])
    ELSE [kind |-> "next"]

Alert(metric_name, value, phrase, threshold) ==
    [kind |-> "alert", name |-> metric_name, value |-> value,
     phrase |-> phrase, threshold |-> threshold]

\* value > rule['gt'] and value < rule['lt']: a TypeError for a string.
Bool(b) == [kind |-> "bool", val |-> b]
Greater(value, t) ==
    IF t.type = "number" THEN Bool(value > t.val) ELSE Raise("TypeError")
Less(value, t) ==
    IF t.type = "number" THEN Bool(value < t.val) ELSE Raise("TypeError")
\* value == rule['eq']: a number never equals a string.
Equals(value, t) == t.type = "number" /\ value = t.val

\* Lines 104-107.
CheckEq(metric_name, value, r) ==
    IF TruthyScalar(r, "eq") /\ Equals(value, r["eq"])
    THEN Alert(metric_name, value, "equals", r["eq"].val)
    ELSE None

\* Lines 102-103, then 104-107.
CheckLt(metric_name, value, r) ==
    IF TruthyScalar(r, "lt")
    THEN LET c == Less(value, r["lt"])
         IN IF c.kind = "raise" THEN c
            ELSE IF c.val THEN Alert(metric_name, value, "is less than", r["lt"].val)
            ELSE CheckEq(metric_name, value, r)
    ELSE CheckEq(metric_name, value, r)

\* Lines 100-101, then 102-107.
CheckGt(metric_name, value, r) ==
    IF TruthyScalar(r, "gt")
    THEN LET c == Greater(value, r["gt"])
         IN IF c.kind = "raise" THEN c
            ELSE IF c.val THEN Alert(metric_name, value, "is greater than", r["gt"].val)
            ELSE CheckLt(metric_name, value, r)
    ELSE CheckLt(metric_name, value, r)

evaluate_metric_rule(metric_name, value, labels, r) ==
    LET l == LabelCheck(labels, r)
    IN IF l.kind = "next" THEN CheckGt(metric_name, value, r) ELSE l

(***************************************************************************)
(* The samples and the rules the evaluator is applied to.                  *)
(***************************************************************************)
MaxVal == 3          \* largest sample value
Values == (0 - 2)..MaxVal
ThresholdNumbers == {0 - 1, 0, 2}
Thresholds == {Num(n) : n \in ThresholdNumbers} \cup {Str(<<"9">>)}
SampleLabelValues == {<<"i">>, <<"i", "d">>}
Patterns == {<<"i">>, <<"i", "d">>, <<"(">>}
LabelDicts == UNION {[K -> SampleLabelValues] : K \in SUBSET LabelNames}
MatchLists ==
    {<<>>} \cup {<<<<l, p>>>> : <<l, p>> \in LabelNames \X Patterns}
    \cup {<<<<l1, p1>>, <<l2, p2>>>> :
             <<l1, p1, l2, p2>> \in {q \in LabelNames \X Patterns \X LabelNames \X Patterns :
                                        q[1] # q[3]}}
ThresholdRules == UNION {[K -> Thresholds] : K \in SUBSET {"gt", "lt", "eq"}}
WithMatch(r, m) == [k \in (DOMAIN r) \cup {"label_match"} |->
                       IF k = "label_match" THEN m ELSE r[k]]
Rules == ThresholdRules \cup {WithMatch(r, m) : <<r, m>> \in ThresholdRules \X MatchLists}

ParseIdle == line = <<>> /\ parsed = Unset

InitEval ==
    /\ sample \in {[name |-> <<"a">>, value |-> v, labels |-> l] :
                      <<v, l>> \in Values \X LabelDicts}
    /\ rule \in Rules
    /\ result = Unset
    /\ ParseIdle /\ LoopIdle

Evaluate ==
    /\ result = Unset
    /\ result' = evaluate_metric_rule(sample.name, sample.value, sample.labels, rule)
    /\ UNCHANGED <<sample, rule, parseVars, loopVars>>

NextEval == Evaluate
SpecEval == InitEval /\ [][NextEval]_vars

(***************************************************************************)
(* check_metrics, with fetch_metrics and send_email, and start.            *)
(*                                                                         *)
(* pc is the line of start or check_metrics the thread is about to run:    *)
(*   "check"     line 135, the call of check_metrics (fetch_metrics first) *)
(*   "for"       line 114, the next turn of the for loop                   *)
(*   "if_alerts" line 122                                                  *)
(*   "log"       line 127                                                  *)
(*   "sleep"     line 136                                                  *)
(*   "handler"   lines 141-142, the except Exception clause of start       *)
(*   "stopped"   after the break of line 139                               *)
(*   "killed"    a KeyboardInterrupt has left start                        *)
(***************************************************************************)
MaxBody == 3         \* most lines of a scrape body

FallbackSleep == 60
Header == "The following issues were detected:"
Text(t) == [kind |-> "text", text |-> t]

\* The lines a scrape body is made of.
BodyLines ==
    { <<"a", " ", "1">>,
      <<"a", "{", "a", "=", "\"", "i", "\"", "}", " ", "3">>,
      <<"b", " ", "1">>,
      <<"#", " ", "a">> }
Bodies == UNION {[1..n -> BodyLines] : n \in 0..MaxBody}

\* The rules of config['rules'].
LoopRules ==
    { [gt |-> Num(2)],
      [lt |-> Num(2)],
      [eq |-> Num(1), label_match |-> <<>>],
      [gt |-> Num(0 - 1), label_match |-> <<<<<<"a">>, <<"(">>>>>>],
      [gt |-> Str(<<"9">>)] }
RuleSets ==
    {[k \in K |-> IF k = <<"a">> THEN r ELSE [lt |-> Num(2)]] :
        <<K, r>> \in (SUBSET {<<"a">>, <<"b">>}) \X LoopRules}
Intervals == {30}

\* Lines 63-69: the parsed lines that are not None, in order.
RECURSIVE ParseLines(_)
ParseLines(lines) ==
    IF lines = <<>> THEN <<>>
    ELSE LET p == parse_metric_line(lines[1])
         IN (IF p.kind = "sample" THEN <<p>> ELSE <<>>) \o ParseLines(Tail(lines))

\* A variant of Collect that puts the new alert first.
Collect_Prepend(list, r) == IF r.kind = "alert" THEN <<r>> \o list ELSE list

\* Lines 60-69: what fetch_metrics returns when the request succeeds, for
\* every body.
FetchResults == {ParseLines(body) : body \in Bodies}

\* Lines 119-120: if alert_message: alerts.append(alert_message).
Collect(list, r) == IF r.kind = "alert" THEN Append(list, r) ELSE list

\* Line 116: whether the sample is evaluated.
HasRule(rules, s) == s.name \in DOMAIN rules

\* A variant of ShouldSend that notifies after every cycle.
ShouldSend_Always(list) == TRUE

\* Line 122: if alerts.
ShouldSend(list) == list # <<>>

\* Line 124: the header, an empty line, and the alerts joined by newlines.
RECURSIVE Join(_)
Join(list) ==
    IF list = <<>> THEN <<>>
    ELSE <<list[1]>> \o (IF Len(list) > 1 THEN <<Text("\n")>> ELSE <<>>) \o Join(Tail(list))
MailBody(list) == <<Text(Header), Text("\n"), Text("\n")>> \o Join(list)

\* A variant of StartHandler that leaves the loop on every exception.
StartHandler_Break(exc) == "stopped"

\* Lines 134-142: where an exception raised under the try statement of start
\* takes the thread.  KeyboardInterrupt is no subclass of Exception.
StartHandler(exc) == IF exc = "KeyboardInterrupt" THEN "stopped" ELSE "handler"

Running == {"check", "for", "if_alerts", "log", "sleep", "handler"}
InTry == {"check", "for", "if_alerts", "log", "sleep"}
Terminal == {"stopped", "killed"}

InitLoop ==
    /\ config \in {[rules |-> r, check_interval |-> i] : <<r, i>> \in RuleSets \X Intervals}
    /\ pc = "check"
    /\ metrics = <<>> /\ idx = 1 /\ alerts = <<>>
    /\ fetched = "none" /\ sends = <<>>
    /\ log = NoLog /\ slept = 0 /\ interrupted = FALSE
    /\ ParseIdle /\ EvalIdle

\* Lines 111-112 and 57-72: a new call of check_metrics; the request
\* succeeds with some body or fails, and a failure gives the empty list.
Fetch ==
    /\ pc = "check"
    /\ \/ \E parsedBody \in FetchResults :
             /\ metrics' = parsedBody
             /\ fetched' = "ok"
             /\ log' = log
       \/ /\ metrics' = <<>>
          /\ fetched' = "failed"
          /\ log' = [level |-> "error", msg |-> "Failed to fetch metrics"]
    /\ alerts' = <<>> /\ idx' = 1 /\ sends' = <<>>
    /\ pc' = "for"
    /\ UNCHANGED <<config, slept, interrupted, parseVars, evalVars>>

\* Lines 114-120: one turn of the for loop; an exception of
\* evaluate_metric_rule leaves check_metrics.
ForTurn ==
    /\ pc = "for" /\ idx <= Len(metrics)
    /\ LET s == metrics[idx]
           r == IF HasRule(config.rules, s)
                THEN evaluate_metric_rule(s.name, s.value, s.labels, config.rules[s.name])
                ELSE None
       IN IF r.kind = "raise"
          THEN /\ pc' = StartHandler(r.exc)
               /\ UNCHANGED <<alerts, idx>>
          ELSE /\ alerts' = Collect(alerts, r)
               /\ idx' = idx + 1
               /\ pc' = pc
    /\ UNCHANGED <<config, metrics, fetched, sends, log, slept,
                   interrupted, parseVars, evalVars>>

\* Line 114: the list is exhausted.
ForEnd ==
    /\ pc = "for" /\ idx > Len(metrics)
    /\ pc' = "if_alerts"
    /\ UNCHANGED <<config, metrics, idx, alerts, fetched, sends, log,
                   slept, interrupted, parseVars, evalVars>>

\* Lines 122-125 and 74-91: send_email is called once; the server accepts
\* the message or the attempt raises, which send_email catches and logs.
NotifySend ==
    /\ pc = "if_alerts" /\ ShouldSend(alerts)
    /\ \E ok \in BOOLEAN :
          /\ sends' = Append(sends, [body |-> MailBody(alerts), ok |-> ok])
          /\ log' = IF ok THEN [level |-> "info", msg |-> "Alert email sent"]
                    ELSE [level |-> "error", msg |-> "Failed to send email"]
    /\ pc' = "log"
    /\ UNCHANGED <<config, metrics, idx, alerts, fetched, slept, interrupted,
                   parseVars, evalVars>>

\* Line 122: no alert, no notification.
NotifySkip ==
    /\ pc = "if_alerts" /\ ~ShouldSend(alerts)
    /\ pc' = "log"
    /\ UNCHANGED <<config, metrics, idx, alerts, fetched, sends, log,
                   slept, interrupted, parseVars, evalVars>>

\* Line 127.
LogCompleted ==
    /\ pc = "log"
    /\ log' = [level |-> "info", msg |-> "Check completed", found |-> Len(alerts)]
    /\ pc' = "sleep"
    /\ UNCHANGED <<config, metrics, idx, alerts, fetched, sends,
                   slept, interrupted, parseVars, evalVars>>

\* Line 136, then the next turn of the while loop.
Sleep ==
    /\ pc = "sleep"
    /\ slept' = config.check_interval
    /\ pc' = "check"
    /\ UNCHANGED <<config, metrics, idx, alerts, fetched, sends, log,
                   interrupted, parseVars, evalVars>>

\* Lines 140-142, then the next turn of the while loop.
HandleException ==
    /\ pc = "handler"
    /\ log' = [level |-> "error", msg |-> "Error in monitoring loop"]
    /\ slept' = FallbackSleep
    /\ pc' = "check"
    /\ UNCHANGED <<config, metrics, idx, alerts, fetched, sends,
                   interrupted, parseVars, evalVars>>

\* Lines 137-139: a KeyboardInterrupt raised under the try statement.
InterruptInTry ==
    /\ pc \in InTry
    /\ interrupted' = TRUE
    /\ pc' = StartHandler("KeyboardInterrupt")
    /\ log' = [level |-> "info", msg |-> "Monitoring stopped by user"]
    /\ UNCHANGED <<config, metrics, idx, alerts, fetched, sends,
                   slept, parseVars, evalVars>>

\* Lines 141-142: a KeyboardInterrupt raised in the except clause is not
\* under the try statement and leaves start.
InterruptInHandler ==
    /\ pc = "handler"
    /\ interrupted' = TRUE
    /\ pc' = "killed"
    /\ UNCHANGED <<config, metrics, idx, alerts, fetched, sends, log,
                   slept, parseVars, evalVars>>

Interrupt == InterruptInTry \/ InterruptInHandler
Step == \/ Fetch \/ ForTurn \/ ForEnd \/ NotifySend \/ NotifySkip
        \/ LogCompleted \/ Sleep \/ HandleException

Init == InitLoop
Next == Step \/ Interrupt
Spec == Init /\ [][Next]_vars
\* The thread keeps running: every call it makes returns.
LiveSpec == Spec /\ WF_vars(Step)

----------------------------------------------------------------------------
(***************************************************************************)
(* Claims about parse_metric_line.                                         *)
(***************************************************************************)
\* The labels a well-formed line spells, written as the mapping the claim
\* gives: {l1: v1, ..., ln: vn}, a repeated name keeping its last value.
SpelledLabels(labs) ==
    [k \in {labs[i][1] : i \in 1..Len(labs)} |->
        labs[CHOOSE i \in 1..Len(labs) :
                 labs[i][1] = k /\ \A j \in (i + 1)..Len(labs) : labs[j][1] # k][2]]

\* C3: every well-formed labelled line parses to the sample (name, value,
\* labels) it spells, whatever the label values are (a space, an opening or
\* a closing brace included).
C3_WellFormedLineParses ==
    parsed # Unset =>
        \A n \in MetricNames, l \in LabelLists, t \in ValueTokens :
            line = WellFormedLine(n, l, t) =>
                parsed = [kind |-> "sample", name |-> n, value |-> FloatOf(t),
                          labels |-> SpelledLabels(l)]

HasSpace(s) == Contains(s, " ")
\* A companion of C3, which the parser satisfies: the same for label values
\* that hold no space.
C3_WithoutSpaces ==
    parsed # Unset =>
        \A n \in MetricNames, l \in LabelLists, t \in ValueTokens :
            (line = WellFormedLine(n, l, t) /\ \A i \in 1..Len(l) : ~HasSpace(l[i][2])) =>
                parsed = [kind |-> "sample", name |-> n, value |-> FloatOf(t),
                          labels |-> SpelledLabels(l)]

\* The first token of the line holds an opening brace and no closing brace
\* after it.
UnterminatedBrace(ln) ==
    LET tok == split(ln, " ")[1]
    IN Contains(tok, "{") /\ \A i \in (index(tok, "{") + 1)..Len(tok) : tok[i] # "}"

\* C5: parse_metric_line raises for no line: the outcome is a sample or
\* None.  A line that does not split into two tokens and a line whose value
\* token is not a number give None; a line with an unterminated brace gives
\* None or a sample with no labels.
C5_ParseNeverRaises ==
    parsed # Unset =>
        /\ parsed.kind \in {"None", "sample"}
        /\ Len(split(line, " ")) # 2 => parsed = None
        /\ (Len(split(line, " ")) = 2 /\ ~IsFloat(split(line, " ")[2])) => parsed = None
        /\ (Len(split(line, " ")) = 2 /\ UnterminatedBrace(line)) =>
               \/ parsed = None
               \/ parsed.kind = "sample" /\ parsed.labels = EmptyDict

\* A line of two tokens with an unterminated brace and a numeric value has
\* been parsed to None.
C5_Witness ==
    /\ parsed # Unset
    /\ Len(split(line, " ")) = 2
    /\ UnterminatedBrace(line)
    /\ IsFloat(split(line, " ")[2])
    /\ parsed = None

\* C6: a line that is empty, whitespace-only, or whose first character after
\* the leading whitespace (spaces, tabs) is the hash sign parses to None.
C6_CommentOrBlankIsNone ==
    (parsed # Unset /\ (strip(line) = <<>> \/ startswith(lstrip(line), "#"))) =>
        parsed = None

RECURSIVE LeadingSpaces(_)
LeadingSpaces(s) == IF Len(s) > 0 /\ s[1] = " " THEN LeadingSpaces(Tail(s)) ELSE s
\* A companion of C6, which the parser satisfies: the same when only space
\* characters precede the hash sign.
C6_SpacesOnly ==
    (parsed # Unset /\ (strip(line) = <<>> \/ startswith(LeadingSpaces(line), "#"))) =>
        parsed = None

(***************************************************************************)
(* Claims about evaluate_metric_rule.                                      *)
(***************************************************************************)
\* The rule has the one key `key`, a threshold of the number n.
OnlyThreshold(r, key, n) ==
    DOMAIN r = {key} /\ r[key].type = "number" /\ r[key].val = n

\* C1: a threshold of 0 is a configured threshold: a rule whose only key is
\* gt = 0 fires exactly for the values above 0, lt = 0 exactly for the values
\* below 0, and eq = 0 exactly for the value 0.
C1_ZeroThresholdIsPresent ==
    result # Unset =>
        /\ OnlyThreshold(rule, "gt", 0) => (result.kind = "alert" <=> sample.value > 0)
        /\ OnlyThreshold(rule, "lt", 0) => (result.kind = "alert" <=> sample.value < 0)
        /\ OnlyThreshold(rule, "eq", 0) => (result.kind = "alert" <=> sample.value = 0)

\* A companion of C1, which the evaluator satisfies: a threshold other than
\* 0 is honoured.
C1_NonZeroThresholds ==
    result # Unset =>
        \A n \in ThresholdNumbers \ {0} :
            /\ OnlyThreshold(rule, "gt", n) => (result.kind = "alert" <=> sample.value > n)
            /\ OnlyThreshold(rule, "lt", n) => (result.kind = "alert" <=> sample.value < n)
            /\ OnlyThreshold(rule, "eq", n) => (result.kind = "alert" <=> sample.value = n)

\* The rule has no label_match, and gt and lt are numbers the value
\* satisfies both.
BothSatisfied(r, value) ==
    /\ ~Has(r, "label_match") /\ Has(r, "gt") /\ Has(r, "lt")
    /\ r["gt"].type = "number" /\ r["lt"].type = "number"
    /\ value > r["gt"].val /\ value < r["lt"].val

\* C2: when gt and lt are both configured and both satisfied, the one alert
\* returned is the greater-than alert.
C2_GtReportedBeforeLt ==
    (result # Unset /\ BothSatisfied(rule, sample.value)) =>
        result.kind = "alert" /\ result.phrase = "is greater than"

\* A companion of C2, which the evaluator satisfies: the same for a gt other
\* than 0.
C2_NonZeroGt ==
    (result # Unset /\ BothSatisfied(rule, sample.value) /\ rule["gt"].val # 0) =>
        result.kind = "alert" /\ result.phrase = "is greater than"

\* The pattern (literal characters and dots) matches the value anchored at
\* its start: it spells the first characters of the value.
MatchesAtStart(pattern, value) ==
    \E n \in 0..Len(value) :
        n = Len(pattern) /\ \A i \in 1..n : pattern[i] \in {".", value[i]}
IsRegex(pattern) == \A i \in 1..Len(pattern) : pattern[i] # "("
\* An entry of label_match against the labels of the sample.
EntryMatches(labels, e) ==
    e[1] \in DOMAIN labels /\ IsRegex(e[2]) /\ MatchesAtStart(e[2], labels[e[1]])
EntryDisqualifies(labels, e) ==
    e[1] \notin DOMAIN labels \/ (IsRegex(e[2]) /\ ~MatchesAtStart(e[2], labels[e[1]]))
EntryFaults(labels, e) == e[1] \in DOMAIN labels /\ ~IsRegex(e[2])
Entries(r) == IF Has(r, "label_match") THEN r["label_match"] ELSE <<>>
\* Some threshold of the rule is configured, non-zero and satisfied.
WouldFire(r, value) ==
    \/ Has(r, "gt") /\ r["gt"].type = "number" /\ r["gt"].val # 0 /\ value > r["gt"].val

C7_NoPrefixAlert ==
    ~(/\ result # Unset /\ result.kind = "alert" /\ Len(Entries(rule)) = 1
      /\ Len(Entries(rule)[1][2]) < Len(sample.labels[Entries(rule)[1][1]]))

(***************************************************************************)
(* Claims about check_metrics and start.                                   *)
(***************************************************************************)
\* The result of evaluating sample s under the rule set, None for a sample
\* without a rule.
ResultOf(rules, s) ==
    IF s.name \in DOMAIN rules
    THEN evaluate_metric_rule(s.name, s.value, s.labels, rules[s.name])
    ELSE None
\* The alerts among the results of the samples, in the order of the samples.
RECURSIVE AlertsOf(_, _)
AlertsOf(rules, samples) ==
    IF samples = <<>> THEN <<>>
    ELSE (IF ResultOf(rules, samples[1]).kind = "alert"
          THEN <<ResultOf(rules, samples[1])>> ELSE <<>>)
         \o AlertsOf(rules, Tail(samples))
Firing(rules, samples) ==
    {i \in 1..Len(samples) : ResultOf(rules, samples[i]).kind = "alert"}
\* The samples the for loop has finished with.
Evaluated == SubSeq(metrics, 1, idx - 1)

RECURSIVE TolerantAlerts(_, _)
TolerantAlerts(rules, samples) ==
    IF samples = <<>> THEN <<>>
    ELSE (IF ResultOf(rules, samples[1]).kind = "alert"
          THEN <<ResultOf(rules, samples[1])>> ELSE <<>>)
         \o TolerantAlerts(rules, Tail(samples))

\* C8: no fault of the evaluation of a sample leaves check_metrics: the
\* except clause of start is never entered, and the cycle reaches the
\* notification step with the alerts of the other samples.
C8_EvaluationFaultsAreContained ==
    /\ pc # "handler"
    /\ pc \in {"if_alerts", "log", "sleep"} =>
           alerts = TolerantAlerts(config.rules, metrics)

C10_LoopStopsOnlyOnInterrupt ==
    /\ [][(pc \in Running /\ pc' \in Terminal) => (~interrupted /\ interrupted')]_vars
    /\ [][interrupted' => pc' \in Terminal]_vars
    /\ [](pc \in Running => ENABLED Interrupt)
    /\ [][(pc = "sleep" /\ pc' \in Running) =>
             (pc' = "check" /\ slept' = config.check_interval)]_vars
    /\ [][(pc = "handler" /\ pc' \in Running) =>
             (pc' = "check" /\ slept' = FallbackSleep)]_vars
    /\ [][(pc = "log" /\ pc' \in Running) => pc' \in {"log", "sleep"}]_vars
    /\ (pc \in {"sleep", "handler"}) ~> (pc = "for" \/ pc \in Terminal)
    /\ (pc = "for") ~> (pc \in {"sleep", "handler"} \cup Terminal)

\* After a cycle that raised, the loop has slept the fallback and a further
\* cycle has found an alert and failed to deliver it.
C10_Witness ==
    /\ pc = "sleep" /\ slept = FallbackSleep /\ ~interrupted
    /\ sends # <<>> /\ ~sends[1].ok

====
